---------------------------- MODULE Spec2Model ----------------------------
(***************************************************************************)
(* State-machine model of src/app.py: the create route (POST /), the view  *)
(* route (GET /a/<article_id>), the JSON record store instance/articles.json*)
(* and the R2 asset store.  Text values (headlines, filenames, keys, ids,  *)
(* URLs) are sequences of one-character strings so that strip, rsplit,     *)
(* lower and the f-string concatenations are computed as the code does.    *)
(***************************************************************************)
EXTENDS Naturals, Sequences, FiniteSets, TLC

(* ------------------------------ bounds --------------------------------- *)

\* number of create requests that may be in flight at the same time
NumWorkers == 2

\* number of POST requests in one behaviour
MaxPosts == 2

\* number of POST requests in one behaviour of the serial specification
MaxSerialPosts == 1

Workers == 1..NumWorkers

(* --------------------------- text helpers ------------------------------ *)

\* characters str.strip() removes (the ones the inputs below use)
Whitespace == {" ", "\t"}

RECURSIVE LStripChars(_, _)
\* str.lstrip(chars)
LStripChars(s, cs) ==
    IF s # <<>> /\ Head(s) \in cs THEN LStripChars(Tail(s), cs) ELSE s

RECURSIVE RStripChars(_, _)
\* str.rstrip(chars)
RStripChars(s, cs) ==
    IF s # <<>> /\ s[Len(s)] \in cs
       THEN RStripChars(SubSeq(s, 1, Len(s) - 1), cs)
       ELSE s

\* str.strip()
Strip(s) == RStripChars(LStripChars(s, Whitespace), Whitespace)

\* "c in s"
Contains(s, c) == \E i \in 1..Len(s) : s[i] = c

\* s.rsplit(c, 1)[1]: what follows the last c  (only used when c is in s)
RSplitLast(s, c) ==
    LET i == CHOOSE k \in 1..Len(s) :
                 s[k] = c /\ \A j \in (k + 1)..Len(s) : s[j] # c
    IN  SubSeq(s, i + 1, Len(s))

UpperCase == <<"A","B","C","D","E","F","G","H","I","J","K","L","M",
               "N","O","P","Q","R","S","T","U","V","W","X","Y","Z">>
LowerCase == <<"a","b","c","d","e","f","g","h","i","j","k","l","m",
               "n","o","p","q","r","s","t","u","v","w","x","y","z">>

LowerChar(c) ==
    IF \E i \in 1..Len(UpperCase) : UpperCase[i] = c
       THEN LowerCase[CHOOSE i \in 1..Len(UpperCase) : UpperCase[i] = c]
       ELSE c

\* str.lower()
Lower(s) == [i \in 1..Len(s) |-> LowerChar(s[i])]

\* the first n characters, s[:n]
Prefix(s, n) == SubSeq(s, 1, IF Len(s) < n THEN Len(s) ELSE n)

Rep(c, n) == [i \in 1..n |-> c]

(* --------------------------- configuration ----------------------------- *)

\* an environment variable: unset, or set to a string
Unset == [set |-> FALSE]
Set(v) == [set |-> TRUE, value |-> v]

\* os.getenv(name): None when the variable is unset
Getenv(e, name) == e[name]

\* os.getenv(name, default)
GetenvDefault(e, name, default) ==
    IF e[name].set THEN e[name].value ELSE default

\* bool(v) of os.getenv(name): None and "" are false
Truthy(v) == v.set /\ v.value # <<>>

\* the value of the environment variable R2_PUBLIC_BASE_URL
EnvPublicBaseUrl == <<"h", ":", "/", "/", "r", "2", "/">>

\* os.getenv("R2_PUBLIC_BASE_URL", "").rstrip("/")
R2_PUBLIC_BASE_URL == RStripChars(EnvPublicBaseUrl, {"/"})

\* r2_url_for(key)
r2_url_for(key) == R2_PUBLIC_BASE_URL \o <<"/">> \o LStripChars(key, {"/"})

EnvNames == {"R2_BUCKET_NAME", "R2_ENDPOINT_URL", "R2_ACCESS_KEY_ID",
             "R2_SECRET_ACCESS_KEY", "R2_PUBLIC_BASE_URL"}

\* the environment the serving specifications run in: every variable is set
FullEnv ==
    [n \in EnvNames |->
        IF n = "R2_PUBLIC_BASE_URL" THEN Set(EnvPublicBaseUrl) ELSE Set(<<"v">>)]

\* the environments the application may be started in
Envs ==
    { e \in [EnvNames -> {Unset, Set(<<>>), Set(<<"/">>), Set(<<"v">>),
                          Set(EnvPublicBaseUrl)}] :
        /\ \A n \in EnvNames \ {"R2_PUBLIC_BASE_URL"} :
               e[n] \in {Unset, Set(<<>>), Set(<<"v">>)}
        /\ e["R2_PUBLIC_BASE_URL"] \in
               {Unset, Set(<<>>), Set(<<"/">>), Set(EnvPublicBaseUrl)} }

\* the default of line 39
DefaultBucket ==
    <<"u","n","i","o","n","h","e","r","a","l","d","p","r","e","s","s">>

\* line 39: R2_BUCKET_NAME
BucketName(e) == GetenvDefault(e, "R2_BUCKET_NAME", DefaultBucket)

\* line 43: the public base URL read from environment e
PublicBaseUrl(e) ==
    RStripChars(GetenvDefault(e, "R2_PUBLIC_BASE_URL", <<>>), {"/"})

\* ConfigOk with the bucket name among the values tested
ConfigOkWithBucket(e) ==
    /\ Truthy(Getenv(e, "R2_BUCKET_NAME"))
    /\ Truthy(Getenv(e, "R2_ENDPOINT_URL"))
    /\ Truthy(Getenv(e, "R2_ACCESS_KEY_ID"))
    /\ Truthy(Getenv(e, "R2_SECRET_ACCESS_KEY"))
    /\ PublicBaseUrl(e) # <<>>

\* line 45: all([R2_ENDPOINT_URL, R2_ACCESS_KEY_ID, R2_SECRET_ACCESS_KEY,
\* R2_PUBLIC_BASE_URL])
ConfigOk(e) ==
    /\ Truthy(Getenv(e, "R2_ENDPOINT_URL"))
    /\ Truthy(Getenv(e, "R2_ACCESS_KEY_ID"))
    /\ Truthy(Getenv(e, "R2_SECRET_ACCESS_KEY"))
    /\ PublicBaseUrl(e) # <<>>

(* ------------------------------ inputs --------------------------------- *)

\* request.form.get("headline", "")
Headlines ==
    { <<>>, <<" ", "\t">>, <<"a">>, <<" ", "b", " ">> }

NoFile == [present |-> FALSE]
File(name) == [present |-> TRUE, filename |-> name]

Filenames ==
    { <<>>,
      <<"a", ".", "p", "n", "g">>,
      <<"b", ".", "J", "P", "G">>,
      <<"c", ".", "t", "x", "t">>,
      <<"d", ".", "b", "m", "p">>,
      <<"g", "i", "f">> }

\* request.files.get(...): None, or a FileStorage with a filename
FileInputs == {NoFile} \cup { File(n) : n \in Filenames }

\* every form the serial specification submits
Forms == [headline : Headlines, og_image : FileInputs, troll_image : FileInputs]

MkForm(h, og, troll) ==
    [headline |-> h, og_image |-> File(og), troll_image |-> File(troll)]

\* the forms concurrent requests submit: two valid ones that differ in their
\* headline, and one with a blank headline
ConcForms ==
    { MkForm(h, <<"b", ".", "J", "P", "G">>, <<"a", ".", "p", "n", "g">>) :
          h \in {<<" ", "b", " ">>, <<"a">>, <<" ", "\t">>} }

IdLen == 10

\* values uuid.uuid4().hex can take: 32 hexadecimal digits; the first two
\* differ only after the tenth digit
UuidHexes ==
    { Rep("a", 10) \o <<"0", "0", "4">> \o Rep("1", 19),
      Rep("a", 10) \o <<"0", "0", "4">> \o Rep("2", 19),
      Rep("b", 10) \o <<"0", "0", "4">> \o Rep("3", 19) }

\* uuid.uuid4().hex[:10]
ArticleId(u) == Prefix(u, IdLen)

(* --------------------------- record store ------------------------------ *)

EmptyMap == [x \in {} |-> {}]

\* the content of instance/articles.json
FileMissing == [state |-> "missing"]
FileEmpty   == [state |-> "empty"]      \* opened for writing, nothing written
FileBad     == [state |-> "bad"]        \* bytes that are not a JSON document
FileOk(data) == [state |-> "ok", data |-> data]

\* load_articles with a first-run store made up when the file is missing
load_articles_seeded(f) ==
    IF f.state = "missing"
       THEN [x \in {Rep("c", IdLen)} |-> [id |-> x, headline |-> <<"o">>]]
    ELSE IF f.state = "ok" THEN f.data
    ELSE EmptyMap

\* load_articles()
load_articles(f) ==
    IF f.state = "missing" THEN EmptyMap
    ELSE IF f.state = "ok" THEN f.data
    ELSE EmptyMap                        \* json.JSONDecodeError

allowed ==
    { <<"p","n","g">>, <<"j","p","g">>, <<"j","p","e","g">>,
      <<"g","i","f">>, <<"w","e","b","p">> }

\* allowed_file(filename)
allowed_file(filename) ==
    IF ~ Contains(filename, ".") THEN FALSE
    ELSE Lower(RSplitLast(filename, ".")) \in allowed

(* ----------------------------- responses ------------------------------- *)

NoResp == [kind |-> "none"]                        \* nothing sent yet
NoError == "None"
Form(error) == [kind |-> "form", error |-> error]  \* render create.html, 200
Redirect(id) == [kind |-> "redirect", article_id |-> id]          \* 302
\* an exception leaves create_article: 500; att records the uploads it tried
ServerError(att) == [kind |-> "error", attempts |-> att]
NotFound(id) == [kind |-> "notfound", article_id |-> id]          \* abort(404)
Article(id, a, og_url, troll_url) ==               \* render article.html, 200
    [kind |-> "article", article_id |-> id, article |-> a,
     og_url |-> og_url, troll_url |-> troll_url]

MsgHeadline == "Headline is required."
MsgOgMissing == "Preview image is required."
MsgTrollMissing == "Troll article image is required."
MsgOgType == "Preview image must be PNG, JPG, JPEG, GIF, or WEBP."
MsgTrollType == "Troll image must be PNG, JPG, JPEG, GIF, or WEBP."

\* "not f or f.filename == ''"
FileAbsent(f) == ~ f.present \/ f.filename = <<>>

\* Validate with the headline tested before it is stripped
ValidateNoStrip(f) ==
    IF f.headline = <<>> THEN MsgHeadline
    ELSE IF FileAbsent(f.og_image) THEN MsgOgMissing
    ELSE IF FileAbsent(f.troll_image) THEN MsgTrollMissing
    ELSE IF ~ allowed_file(f.og_image.filename) THEN MsgOgType
    ELSE IF ~ allowed_file(f.troll_image.filename) THEN MsgTrollType
    ELSE NoError

\* Validate with the two image-type messages exchanged
ValidateTypeSwapped(f) ==
    IF Strip(f.headline) = <<>> THEN MsgHeadline
    ELSE IF FileAbsent(f.og_image) THEN MsgOgMissing
    ELSE IF FileAbsent(f.troll_image) THEN MsgTrollMissing
    ELSE IF ~ allowed_file(f.og_image.filename) THEN MsgTrollType
    ELSE IF ~ allowed_file(f.troll_image.filename) THEN MsgOgType
    ELSE NoError

\* Validate with the preview extension checked before the payload presence
ValidateTypeFirst(f) ==
    IF Strip(f.headline) = <<>> THEN MsgHeadline
    ELSE IF FileAbsent(f.og_image) THEN MsgOgMissing
    ELSE IF ~ allowed_file(f.og_image.filename) THEN MsgOgType
    ELSE IF FileAbsent(f.troll_image) THEN MsgTrollMissing
    ELSE IF ~ allowed_file(f.troll_image.filename) THEN MsgTrollType
    ELSE NoError

\* the if/elif chain of create_article (lines 131-140): the first failing
\* check's message, or NoError
Validate(f) ==
    IF Strip(f.headline) = <<>> THEN MsgHeadline
    ELSE IF FileAbsent(f.og_image) THEN MsgOgMissing
    ELSE IF FileAbsent(f.troll_image) THEN MsgTrollMissing
    ELSE IF ~ allowed_file(f.og_image.filename) THEN MsgOgType
    ELSE IF ~ allowed_file(f.troll_image.filename) THEN MsgTrollType
    ELSE NoError

ArticlesPrefix == <<"a","r","t","i","c","l","e","s","/">>

\* OgKey with the extension left in the case the filename has it in
OgKeyRawExt(id, filename) ==
    ArticlesPrefix \o id \o <<"_","o","g",".">> \o RSplitLast(filename, ".")

\* f"articles/{article_id}_og.{og_ext}"
OgKey(id, filename) ==
    ArticlesPrefix \o id \o <<"_","o","g",".">>
        \o Lower(RSplitLast(filename, "."))

\* TrollKey with the role of the preview key
TrollKeyAsOg(id, filename) ==
    ArticlesPrefix \o id \o <<"_","o","g",".">>
        \o Lower(RSplitLast(filename, "."))

\* f"articles/{article_id}_troll.{troll_ext}"
TrollKey(id, filename) ==
    ArticlesPrefix \o id \o <<"_","t","r","o","l","l",".">>
        \o Lower(RSplitLast(filename, "."))

\* the dict create_article stores under article_id
Record(id, h, ok, tk) ==
    [id |-> id, headline |-> h, og_key |-> ok, troll_key |-> tk]

\* Insert that keeps the record an id already has
InsertIfAbsent(m, id, rec) ==
    [x \in DOMAIN m \cup {id} |-> IF x \in DOMAIN m THEN m[x] ELSE rec]

\* articles[article_id] = rec
Insert(m, id, rec) ==
    [x \in DOMAIN m \cup {id} |-> IF x = id THEN rec ELSE m[x]]

\* view_article without the abort(404)
view_article_no404(f, id) ==
    LET arts == load_articles(f) IN
    IF id \notin DOMAIN arts THEN Article(id, EmptyMap, <<>>, <<>>)
    ELSE LET a == arts[id] IN
         IF "og_key" \in DOMAIN a /\ "troll_key" \in DOMAIN a
            THEN Article(id, a, r2_url_for(a.og_key), r2_url_for(a.troll_key))
            ELSE Article(id, a, <<>>, <<>>)

\* view_article with each URL resolved from its own key when that is there
view_article_each_key(f, id) ==
    LET arts == load_articles(f) IN
    IF id \notin DOMAIN arts THEN NotFound(id)
    ELSE LET a == arts[id] IN
         Article(id, a,
                 IF "og_key" \in DOMAIN a THEN r2_url_for(a.og_key) ELSE <<>>,
                 IF "troll_key" \in DOMAIN a
                    THEN r2_url_for(a.troll_key) ELSE <<>>)

\* view_article(article_id), reading file content f
view_article(f, id) ==
    LET arts == load_articles(f) IN
    IF id \notin DOMAIN arts THEN NotFound(id)
    ELSE LET a == arts[id] IN
         IF "og_key" \in DOMAIN a /\ "troll_key" \in DOMAIN a
            THEN Article(id, a, r2_url_for(a.og_key), r2_url_for(a.troll_key))
            ELSE Article(id, a, <<>>, <<>>)

(* ------------------------------ state ---------------------------------- *)

VARIABLES
    file,        \* instance/articles.json
    assets,      \* object keys that hold an uploaded object in the bucket
    pc,          \* pc[w]: where create request w stands
    form,        \* request.form / request.files of request w
    headline,    \* create_article locals of request w
    article_id,
    og_key,
    troll_key,
    articles,
    attempts,    \* history: the uploads request w has tried, in order
    out,         \* the response the last step sent, with its request, if any
    issued,      \* history: ids a create has returned
    submitted,   \* history: id -> the form of the create that last returned it
    last_saved,  \* history: the id whose save is the last write to the file
    nposts,      \* POST requests received so far
    allocated,   \* history: id -> how many creates have allocated it
    environ,     \* os.environ when the module is loaded
    status       \* "starting", "running" or "refused"

vars == <<file, assets, pc, form, headline, article_id, og_key, troll_key,
          articles, attempts, out, issued, submitted, last_saved, nposts,
          allocated, environ, status>>

process == <<environ, status>>

locals == <<form, headline, article_id, og_key, troll_key, articles, attempts>>
history == <<issued, submitted, last_saved>>

(* ---------------------------- initial state ---------------------------- *)

NoId == <<>>
LegacyId == Rep("c", IdLen)

\* a record written by the earlier, local-file version of the application
LegacyRecord ==
    [id |-> LegacyId, headline |-> <<"o">>,
     ogFilename |-> <<"o", ".", "p", "n", "g">>,
     trollFilename |-> <<"t", ".", "p", "n", "g">>]

\* a record left with only one of the two keys of the current scheme
PartialId == Rep("d", IdLen)
PartialRecord ==
    [id |-> PartialId, headline |-> <<"p">>,
     og_key |-> ArticlesPrefix \o PartialId \o <<"_","o","g",".","p","n","g">>]

LegacyStore ==
    [x \in {LegacyId, PartialId} |->
        IF x = LegacyId THEN LegacyRecord ELSE PartialRecord]

\* what instance/articles.json may hold when the application starts
InitFiles == { FileMissing, FileBad, FileOk(LegacyStore) }

NoForm == [headline |-> <<>>, og_image |-> NoFile, troll_image |-> NoFile]

\* a step that sends no response to any client
Quiet == [src |-> "none", req |-> NoForm, resp |-> NoResp]

\* the files, the bucket and the requests when the module is loaded
InitData ==
    /\ file \in InitFiles
    /\ assets = {}
    /\ pc = [w \in Workers |-> "idle"]
    /\ form = [w \in Workers |-> NoForm]
    /\ headline = [w \in Workers |-> <<>>]
    /\ article_id = [w \in Workers |-> NoId]
    /\ og_key = [w \in Workers |-> <<>>]
    /\ troll_key = [w \in Workers |-> <<>>]
    /\ articles = [w \in Workers |-> EmptyMap]
    /\ attempts = [w \in Workers |-> <<>>]
    /\ out = Quiet
    /\ issued = DOMAIN load_articles(file)
    /\ submitted = EmptyMap
    /\ last_saved = NoId
    /\ nposts = 0
    /\ allocated = EmptyMap

\* the application is serving, started in an environment with every variable
\* set
Init ==
    /\ InitData
    /\ environ = FullEnv
    /\ status = "running"

\* the module is about to be loaded, in any environment
InitStart ==
    /\ InitData
    /\ environ \in Envs
    /\ status = "starting"

(* ------------------------------ actions -------------------------------- *)

\* lines 39-58: the module is loaded; it raises RuntimeError when the
\* configuration check fails, else the application serves
Start ==
    /\ status = "starting"
    /\ status' = IF ConfigOk(environ) THEN "running" ELSE "refused"
    /\ UNCHANGED <<file, assets, pc, locals, out, history, nposts, allocated,
                   environ>>

\* the request is over: its locals are gone
Return(w) ==
    /\ pc' = [pc EXCEPT ![w] = "idle"]
    /\ form' = [form EXCEPT ![w] = NoForm]
    /\ headline' = [headline EXCEPT ![w] = <<>>]
    /\ article_id' = [article_id EXCEPT ![w] = NoId]
    /\ og_key' = [og_key EXCEPT ![w] = <<>>]
    /\ troll_key' = [troll_key EXCEPT ![w] = <<>>]
    /\ articles' = [articles EXCEPT ![w] = EmptyMap]
    /\ attempts' = [attempts EXCEPT ![w] = <<>>]

\* GET /: the form with no error
GetForm ==
    /\ out' = [src |-> "get", req |-> NoForm, resp |-> Form(NoError)]
    /\ UNCHANGED <<file, assets, pc, locals, history, nposts,
                   allocated, process>>

\* one more allocation of id
Count(m, id) ==
    [x \in DOMAIN m \cup {id} |->
        IF x = id THEN (IF id \in DOMAIN m THEN m[id] + 1 ELSE 1) ELSE m[x]]

\* lines 143-152: the id is allocated and the two keys are derived
Allocate(w, f, u) ==
    /\ form' = [form EXCEPT ![w] = f]
    /\ headline' = [headline EXCEPT ![w] = Strip(f.headline)]
    /\ article_id' = [article_id EXCEPT ![w] = ArticleId(u)]
    /\ og_key' = [og_key EXCEPT ![w] = OgKey(ArticleId(u), f.og_image.filename)]
    /\ troll_key' = [troll_key EXCEPT ![w] =
                        TrollKey(ArticleId(u), f.troll_image.filename)]
    /\ pc' = [pc EXCEPT ![w] = "upload_og"]
    /\ allocated' = Count(allocated, ArticleId(u))

\* POST /: validation (lines 124-140), then Allocate.  Workers are
\* interchangeable, so a request is taken by the lowest idle one.
Post(w, f) ==
    /\ pc[w] = "idle"
    /\ \A v \in Workers : v < w => pc[v] # "idle"
    /\ nposts < MaxPosts
    /\ nposts' = nposts + 1
    /\ IF Validate(f) # NoError
          THEN /\ out' = [src |-> "post", req |-> f,
                          resp |-> Form(Validate(f))]
               /\ UNCHANGED <<pc, locals, allocated>>
          ELSE /\ \E u \in UuidHexes : Allocate(w, f, u)
               /\ out' = Quiet
               /\ UNCHANGED <<articles, attempts>>
    /\ UNCHANGED <<file, assets, history, process>>

\* upload_to_r2 with the client's exception swallowed: the request goes on
upload_swallowed(w, role, key, ok, next) ==
    /\ assets' = IF ok THEN assets \cup {key} ELSE assets
    /\ attempts' = [attempts EXCEPT ![w] =
                       Append(@, [role |-> role, ok |-> ok])]
    /\ pc' = [pc EXCEPT ![w] = next]
    /\ out' = Quiet
    /\ UNCHANGED <<form, headline, article_id, og_key, troll_key, articles>>

\* upload_to_r2(file_storage, key): the object is stored, or the client raises
\* and the exception ends the request
upload_to_r2(w, role, key, ok, next) ==
    LET att == Append(attempts[w], [role |-> role, ok |-> ok]) IN
    IF ok
       THEN /\ assets' = assets \cup {key}
            /\ attempts' = [attempts EXCEPT ![w] = att]
            /\ pc' = [pc EXCEPT ![w] = next]
            /\ out' = Quiet
            /\ UNCHANGED <<form, headline, article_id, og_key, troll_key,
                           articles>>
       ELSE /\ Return(w)
            /\ out' = [src |-> "post", req |-> form[w],
                       resp |-> ServerError(att)]
            /\ UNCHANGED assets

\* line 155
UploadOg(w) ==
    /\ pc[w] = "upload_og"
    /\ \E ok \in BOOLEAN : upload_to_r2(w, "og", og_key[w], ok, "upload_troll")
    /\ UNCHANGED <<file, history, nposts, allocated, process>>

\* UploadTroll with the payload uploaded under the preview key
UploadTrollOgKey(w) ==
    /\ pc[w] = "upload_troll"
    /\ \E ok \in BOOLEAN : upload_to_r2(w, "troll", og_key[w], ok, "load")
    /\ UNCHANGED <<file, history, nposts, allocated, process>>

\* line 156
UploadTroll(w) ==
    /\ pc[w] = "upload_troll"
    /\ \E ok \in BOOLEAN : upload_to_r2(w, "troll", troll_key[w], ok, "load")
    /\ UNCHANGED <<file, history, nposts, allocated, process>>

\* Load with the new record put into an empty mapping
LoadFresh(w) ==
    /\ pc[w] = "load"
    /\ articles' = [articles EXCEPT ![w] =
                       Insert(EmptyMap, article_id[w],
                              Record(article_id[w], headline[w],
                                     og_key[w], troll_key[w]))]
    /\ pc' = [pc EXCEPT ![w] = "save_open"]
    /\ out' = Quiet
    /\ UNCHANGED <<file, assets, form, headline, article_id, og_key,
                   troll_key, attempts, history, nposts, allocated, process>>

\* lines 159-165: articles = load_articles(); articles[article_id] = {...}
Load(w) ==
    /\ pc[w] = "load"
    /\ articles' = [articles EXCEPT ![w] =
                       Insert(load_articles(file), article_id[w],
                              Record(article_id[w], headline[w],
                                     og_key[w], troll_key[w]))]
    /\ pc' = [pc EXCEPT ![w] = "save_open"]
    /\ out' = Quiet
    /\ UNCHANGED <<file, assets, form, headline, article_id, og_key,
                   troll_key, attempts, history, nposts, allocated, process>>

\* SaveOpen with the file opened for appending: what it holds stays
SaveOpenAppend(w) ==
    /\ pc[w] = "save_open"
    /\ file' = file
    /\ last_saved' = NoId
    /\ pc' = [pc EXCEPT ![w] = "save_write"]
    /\ out' = Quiet
    /\ UNCHANGED <<assets, locals, issued, submitted, nposts, allocated,
                   process>>

\* save_articles, line 74: DATA_FILE.open("w") truncates the file
SaveOpen(w) ==
    /\ pc[w] = "save_open"
    /\ file' = FileEmpty
    /\ last_saved' = NoId
    /\ pc' = [pc EXCEPT ![w] = "save_write"]
    /\ out' = Quiet
    /\ UNCHANGED <<assets, locals, issued, submitted, nposts,
                   allocated, process>>

\* Written with only the new record serialized
WrittenOwnRecord(w) ==
    { FileOk([x \in {article_id[w]} |-> articles[w][article_id[w]]]) }

\* what the file holds once request w has written its document at offset 0:
\* its own document when the file was still empty; when another request wrote
\* after w truncated, its own document if that is at least as long as the
\* other one, else the other one's tail follows it and the bytes do not parse
Written(w) ==
    IF file.state = "empty"
       THEN { FileOk(articles[w]) }
       ELSE { FileOk(articles[w]), FileBad }

\* save_articles, line 75 and the close, then the redirect of line 168
SaveWrite(w) ==
    /\ pc[w] = "save_write"
    /\ file' \in Written(w)
    /\ out' = [src |-> "post", req |-> form[w],
               resp |-> Redirect(article_id[w])]
    /\ issued' = issued \cup {article_id[w]}
    /\ submitted' = Insert(submitted, article_id[w], form[w])
    /\ last_saved' = IF file'.state = "ok" THEN article_id[w] ELSE NoId
    /\ Return(w)
    /\ UNCHANGED <<assets, nposts, allocated, process>>

\* the process serving request w is killed in the middle of create_article
Crash(w) ==
    /\ pc[w] # "idle"
    /\ Return(w)
    /\ out' = Quiet
    /\ UNCHANGED <<file, assets, history, nposts, allocated, process>>

\* ids a view asks for: one that create can allocate and the legacy one
ViewIds == { Prefix(Rep("a", 32), IdLen), LegacyId }

\* ids a view asks for in the serial specification: the id of the record with
\* one key as well
SerialViewIds == ViewIds \cup {PartialId}

\* View with the store saved back after it is loaded
ViewAndSave(id) ==
    /\ out' = [src |-> "view", req |-> id,
               resp |-> view_article(file, id)]
    /\ file' = FileOk(load_articles(file))
    /\ UNCHANGED <<assets, pc, locals, history, nposts, allocated, process>>

\* GET /a/<article_id>
View(id) ==
    /\ out' = [src |-> "view", req |-> id,
               resp |-> view_article(file, id)]
    /\ UNCHANGED <<file, assets, pc, locals, history, nposts,
                   allocated, process>>

\* create requests of every worker interleave with each other and with
\* views; they submit ConcForms
Next ==
    \/ \E w \in Workers, f \in ConcForms : Post(w, f)
    \/ \E w \in Workers : UploadOg(w)
    \/ \E w \in Workers : UploadTroll(w)
    \/ \E w \in Workers : Load(w)
    \/ \E w \in Workers : SaveOpen(w)
    \/ \E w \in Workers : SaveWrite(w)
    \/ \E w \in Workers : Crash(w)
    \/ \E id \in ViewIds : View(id)

Spec == Init /\ [][Next]_vars

\* one create request at a time (worker 1), submitting every form of Forms,
\* MaxSerialPosts times at most; views still interleave with its steps
NextSerial ==
    \/ GetForm
    \/ \E f \in Forms : nposts < MaxSerialPosts /\ Post(1, f)
    \/ UploadOg(1)
    \/ UploadTroll(1)
    \/ Load(1)
    \/ SaveOpen(1)
    \/ SaveWrite(1)
    \/ Crash(1)
    \/ \E id \in SerialViewIds : View(id)

SpecSerial == Init /\ [][NextSerial]_vars

\* the start of the application
NextStart == Start

SpecStart == InitStart /\ [][NextStart]_vars

(* ------------------------------ claims --------------------------------- *)

\* the store as a request reads it
Store == load_articles(file)

\* the last response is a view of an id a create returned, and that create's
\* save is still the last write to the file: the view directly follows it
ViewFollowsCreate ==
    /\ out.src = "view"
    /\ out.req \in DOMAIN submitted
    /\ last_saved = out.req

\* C1, as amended: for every valid form, a view that directly follows the
\* create that returned the id finds a record whose headline is the submitted
\* headline with leading and trailing whitespace stripped, and resolves two
\* URLs that are non-empty and different.
C1_CreateThenView ==
    ViewFollowsCreate =>
        /\ out.resp.kind = "article"
        /\ out.resp.article.headline = Strip(submitted[out.req].headline)
        /\ out.resp.og_url # <<>>
        /\ out.resp.troll_url # <<>>
        /\ out.resp.og_url # out.resp.troll_url

\* a headline with surrounding whitespace was created and then viewed
C1_Witness ==
    /\ ViewFollowsCreate
    /\ out.resp.kind = "article"
    /\ submitted[out.req].headline = <<" ", "b", " ">>
    /\ out.resp.article.headline = <<"b">>
    /\ out.resp.og_url # out.resp.troll_url

\* C1 as stated: the record a view finds after a create carries the submitted
\* headline itself.
C1_Original ==
    ViewFollowsCreate =>
        /\ out.resp.kind = "article"
        /\ out.resp.article.headline = submitted[out.req].headline
        /\ out.resp.og_url # <<>>
        /\ out.resp.troll_url # <<>>
        /\ out.resp.og_url # out.resp.troll_url

\* the record create_article writes for form f under id
RecordOf(id, f) ==
    Record(id, Strip(f.headline), OgKey(id, f.og_image.filename),
           TrollKey(id, f.troll_image.filename))

\* C2 as stated, read where the file holds a complete document: every id a
\* create has returned is still mapped to the record that create inserted.
C2_RecordsKept ==
    file.state = "ok" =>
        \A id \in DOMAIN submitted :
            id \in DOMAIN file.data /\ file.data[id] = RecordOf(id, submitted[id])

\* the step is request w's save_articles write followed by its redirect
IsSaveWrite(w) ==
    /\ pc[w] = "save_write" /\ pc'[w] = "idle"
    /\ out'.src = "post" /\ out'.resp = Redirect(article_id[w])
    /\ issued' = issued \cup {article_id[w]}

\* C3: the save of a request overwrites the whole store with the mapping that
\* request loaded plus its own record: an id another create returned after
\* that load is absent from the store afterwards, although it is still an id
\* a create returned with success.
C3_LastSaveWins ==
    [][\A w \in Workers :
          IsSaveWrite(w) =>
              /\ file'.state = "ok" => file'.data = articles[w]
              /\ \A id \in DOMAIN submitted \ DOMAIN articles[w] :
                     id \notin DOMAIN load_articles(file') /\ id \in issued']_vars

\* two creates ran, both returned their ids, and the store holds one of them
C3_Witness ==
    /\ nposts = 2
    /\ \A w \in Workers : pc[w] = "idle"
    /\ file.state = "ok"
    /\ \E x, y \in DOMAIN submitted :
          /\ x # y
          /\ x \notin DOMAIN file.data
          /\ y \in DOMAIN file.data
          /\ last_saved = y

\* the step is a POST arriving
IsPost == nposts' = nposts + 1

\* the form of the POST that arrives in the step
Posted ==
    IF \E w \in Workers : pc[w] = "idle" /\ pc'[w] # "idle"
       THEN form'[CHOOSE w \in Workers : pc[w] = "idle" /\ pc'[w] # "idle"]
       ELSE out'.req

\* the request of the step ends in validation: the form is rendered again,
\* nothing is uploaded or written and no request is left in flight
Rejected(msg) ==
    /\ out'.src = "post"
    /\ out'.req = Posted
    /\ out'.resp = Form(msg)
    /\ UNCHANGED <<file, assets, attempts, pc>>

\* C4: a POST whose headline is empty or whitespace only is answered with
\* "Headline is required.", uploads nothing and leaves the record store as it
\* was, whatever its two file fields hold.
C4_BlankHeadline ==
    [][(IsPost /\ Strip(Posted.headline) = <<>>) => Rejected(MsgHeadline)]_vars

\* a whitespace-only headline with two acceptable files was rejected
C4_Witness ==
    /\ out.src = "post"
    /\ out.resp = Form(MsgHeadline)
    /\ out.req.headline = <<" ", "\t">>
    /\ out.req.og_image = File(<<"a", ".", "p", "n", "g">>)
    /\ out.req.troll_image = File(<<"b", ".", "J", "P", "G">>)

\* the file field holds a named file whose extension is not allowed
BadExt(fi) == ~ FileAbsent(fi) /\ ~ allowed_file(fi.filename)

\* C5, as amended: when the headline is not blank and both files are present
\* and named, a disallowed extension makes create fail with the image-type
\* message of the first such file (preview before troll); and whatever the
\* other fields hold, a POST with a disallowed extension is rejected with a
\* validation message, uploads neither file and leaves the store unchanged.
C5_BadExtension ==
    [][(IsPost /\ (BadExt(Posted.og_image) \/ BadExt(Posted.troll_image))) =>
          /\ \E msg \in {MsgHeadline, MsgOgMissing, MsgTrollMissing,
                         MsgOgType, MsgTrollType} : Rejected(msg)
          /\ (/\ Strip(Posted.headline) # <<>>
              /\ ~ FileAbsent(Posted.og_image)
              /\ ~ FileAbsent(Posted.troll_image))
             => Rejected(IF BadExt(Posted.og_image)
                            THEN MsgOgType ELSE MsgTrollType)]_vars

\* a troll filename without a dot was rejected with the troll type message
C5_Witness ==
    /\ out.src = "post"
    /\ out.req.headline = <<" ", "b", " ">>
    /\ out.req.og_image = File(<<"b", ".", "J", "P", "G">>)
    /\ out.req.troll_image = File(<<"g", "i", "f">>)
    /\ out.resp = Form(MsgTrollType)
    /\ assets = {}

\* C5 as stated: every POST in which a file has a disallowed extension fails
\* with the image-type message of such a file.
C5_Original ==
    [][(IsPost /\ (BadExt(Posted.og_image) \/ BadExt(Posted.troll_image))) =>
          \/ BadExt(Posted.og_image) /\ Rejected(MsgOgType)
          \/ BadExt(Posted.troll_image) /\ Rejected(MsgTrollType)]_vars

\* the message of the first check that form f fails, in the order headline,
\* preview present, payload present, preview extension, payload extension
FirstFailing(f) ==
    CASE Strip(f.headline) = <<>> -> MsgHeadline
      [] ~ f.og_image.present -> MsgOgMissing
      [] f.og_image.filename = <<>> -> MsgOgMissing
      [] ~ f.troll_image.present -> MsgTrollMissing
      [] f.troll_image.filename = <<>> -> MsgTrollMissing
      [] ~ allowed_file(f.og_image.filename) -> MsgOgType
      [] ~ allowed_file(f.troll_image.filename) -> MsgTrollType
      [] OTHER -> NoError

\* C6: the five checks are made in that fixed order and a POST that fails
\* any of them is answered with the one message of the first check it fails;
\* a POST that fails none goes on to the uploads.
C6_CheckOrder ==
    [][IsPost =>
          IF FirstFailing(Posted) # NoError
             THEN Rejected(FirstFailing(Posted))
             ELSE \E w \in Workers :
                      /\ pc[w] = "idle" /\ pc'[w] = "upload_og"
                      /\ form'[w] = Posted
                      /\ out'.src = "none"
                      /\ UNCHANGED <<file, assets>>]_vars

\* a form with a disallowed preview extension and no payload file was
\* answered with the payload-missing message
C6_Witness ==
    /\ out.src = "post"
    /\ out.req.headline = <<"a">>
    /\ out.req.og_image = File(<<"c", ".", "t", "x", "t">>)
    /\ out.req.troll_image = NoFile
    /\ out.resp = Form(MsgTrollMissing)

OkOg == [role |-> "og", ok |-> TRUE]
OkTroll == [role |-> "troll", ok |-> TRUE]
FailOg == [role |-> "og", ok |-> FALSE]
FailTroll == [role |-> "troll", ok |-> FALSE]

\* C7: a failed upload ends the request with an error response and is not
\* retried: a request in flight has tried each upload at most once, preview
\* first, and none of its tries has failed; an error response follows one
\* failed try, the payload upload being untried when the preview upload
\* failed; the step that fails leaves the store file as it is, and only a
\* request whose two uploads succeeded ever writes the store file.
C7_UploadFailure ==
    [][/\ \A w \in Workers :
              attempts'[w] \in {<<>>, <<OkOg>>, <<OkOg, OkTroll>>}
       /\ out'.resp.kind = "error" =>
              out'.resp.attempts \in {<<FailOg>>, <<OkOg, FailTroll>>}
       /\ \A w \in Workers :
              (/\ pc[w] \in {"upload_og", "upload_troll"}
               /\ pc'[w] = "idle"
               /\ out'.src = "post" /\ out'.resp.kind = "error")
              => file' = file /\ assets' = assets
       /\ file' # file =>
              \E w \in Workers :
                  /\ pc[w] \in {"save_open", "save_write"}
                  /\ pc'[w] # pc[w]
                  /\ attempts[w] = <<OkOg, OkTroll>>]_vars

\* the payload upload failed after the preview upload had succeeded: the
\* preview object is stored and the store holds no record
C7_Witness ==
    /\ out.src = "post"
    /\ out.resp = ServerError(<<OkOg, FailTroll>>)
    /\ assets # {}
    /\ Store = EmptyMap
    /\ \A w \in Workers : pc[w] = "idle"

\* the record is of the current shape
HasKeys(a) == "og_key" \in DOMAIN a /\ "troll_key" \in DOMAIN a

\* C8: in every state, every record of the current shape in the store names
\* two keys whose objects are uploaded; so does every such record a view has
\* answered with and every mapping a request is about to save.
C8_PublishedAfterUploads ==
    /\ \A id \in DOMAIN Store :
           HasKeys(Store[id]) =>
               Store[id].og_key \in assets /\ Store[id].troll_key \in assets
    /\ (out.src = "view" /\ out.resp.kind = "article"
            /\ HasKeys(out.resp.article)) =>
           /\ out.resp.article.og_key \in assets
           /\ out.resp.article.troll_key \in assets
    /\ \A w \in Workers : \A id \in DOMAIN articles[w] :
           HasKeys(articles[w][id]) =>
               /\ articles[w][id].og_key \in assets
               /\ articles[w][id].troll_key \in assets

\* a create was killed after its uploads: the store holds a published record
\* of another id, and the objects of the killed create are uploaded while its
\* id is absent from the store
C8_Witness ==
    /\ \A w \in Workers : pc[w] = "idle"
    /\ \E id \in DOMAIN Store : HasKeys(Store[id])
    /\ \E k \in assets :
           \A id \in DOMAIN Store :
               HasKeys(Store[id]) =>
                   k # Store[id].og_key /\ k # Store[id].troll_key
    /\ out.src = "view" /\ out.resp.kind = "notfound"
    /\ out.req \notin issued

\* C9 as stated: a view of an id a create has returned, whose record a saving
\* request has loaded and is writing back, finds the record, also between
\* that request's truncation of the file and its write.
C9_ViewDuringSave ==
    [][\A w \in Workers :
          (/\ pc[w] = "save_write"
           /\ UNCHANGED <<file, pc>>
           /\ out'.src = "view"
           /\ out'.req \in DOMAIN submitted
           /\ out'.req \in DOMAIN articles[w]
           /\ out'.req # article_id[w])
          => out'.resp.kind = "article"]_vars

C11_LegacyEmptyUrls ==
    /\ (/\ out.src = "view"
        /\ out.req \in DOMAIN Store
        /\ ~ HasKeys(Store[out.req]))
       => /\ out.resp.kind = "article"
          /\ out.resp.article = Store[out.req]
          /\ out.resp.og_url = <<>>
          /\ out.resp.troll_url = <<>>
    /\ (out.src = "view" /\ out.resp.kind = "article")
       => (out.resp.og_url = <<>> <=> out.resp.troll_url = <<>>)

\* the record with only og_key was viewed, after a create had added a record
\* of the current shape to the file that holds it and the legacy record
C11_Witness ==
    /\ out.src = "view"
    /\ out.req = PartialId
    /\ out.resp.kind = "article"
    /\ "og_key" \in DOMAIN out.resp.article
    /\ "troll_key" \notin DOMAIN out.resp.article
    /\ out.resp.og_url = <<>>
    /\ out.resp.troll_url = <<>>
    /\ "ogFilename" \in DOMAIN Store[LegacyId]
    /\ \E id \in DOMAIN Store : HasKeys(Store[id])

\* the public URL of an object key, written out
PublicUrl(key) == <<"h", ":", "/", "/", "r", "2", "/">> \o key

\* the response depends on nothing but the id and the record the store holds
\* for it
AnswersFromStore(resp, store, id) ==
    IF id \notin DOMAIN store
       THEN resp.kind = "notfound"
       ELSE /\ resp.kind = "article"
            /\ resp.article = store[id]
            /\ resp.og_url = IF HasKeys(store[id])
                                THEN PublicUrl(store[id].og_key) ELSE <<>>
            /\ resp.troll_url = IF HasKeys(store[id])
                                   THEN PublicUrl(store[id].troll_key) ELSE <<>>

\* C12: a view changes neither the store file nor the bucket (nor anything
\* else but the response), and its answer is determined by the id and the
\* store it reads: a view that follows a view of the same id gives the same
\* answer, and so do any two views of one id between which the store is not
\* written.
C12_ViewPure ==
    [][out'.src = "view" =>
          /\ UNCHANGED <<file, assets, pc, locals, history, allocated>>
          /\ AnswersFromStore(out'.resp, load_articles(file'), out'.req)
          /\ (out.src = "view" /\ out.req = out'.req) => out'.resp = out.resp
      ]_vars

\* a view of a created article resolved its two URLs while another create
\* was between its uploads and its save
C12_Witness ==
    /\ out.src = "view"
    /\ out.resp.kind = "article"
    /\ HasKeys(out.resp.article)
    /\ out.resp.og_url = PublicUrl(out.resp.article.og_key)
    /\ out.resp.troll_url = PublicUrl(out.resp.article.troll_key)
    /\ out.resp.og_url # out.resp.troll_url
    /\ \E w \in Workers : pc[w] = "load"
    /\ assets # {}

\* the four variables the configuration check of line 45 names
Required == {"R2_ENDPOINT_URL", "R2_ACCESS_KEY_ID", "R2_SECRET_ACCESS_KEY",
             "R2_PUBLIC_BASE_URL"}

\* the variable is unset, or set to a value the check takes for missing: the
\* empty string, or a public base URL made of slashes only
Missing(n) ==
    \/ ~ environ[n].set
    \/ environ[n].value = <<>>
    \/ n = "R2_PUBLIC_BASE_URL" /\ \A i \in 1..Len(environ[n].value) :
                                         environ[n].value[i] = "/"

\* C13, as amended: the application refuses to start exactly when the
\* endpoint URL, the access key id, the secret access key or the public base
\* URL is unset or empty; the bucket name is not required: started with the
\* bucket name unset and the four others set, it runs with the bucket
\* "unionheraldpress".
C13_RefusesUnset ==
    status # "starting" =>
        /\ status = "refused" <=> \E n \in Required : Missing(n)
        /\ (\A n \in Required : ~ Missing(n)) =>
               /\ status = "running"
               /\ ~ environ["R2_BUCKET_NAME"].set =>
                      BucketName(environ) = DefaultBucket

\* started with the bucket name unset and the four others set: running
C13_Witness ==
    /\ status = "running"
    /\ ~ environ["R2_BUCKET_NAME"].set
    /\ \A n \in Required : environ[n].set
    /\ BucketName(environ) = DefaultBucket

\* C13 as stated: with any of the five variables unset the application
\* refuses to start.
C13_Original ==
    (status # "starting" /\ \E n \in EnvNames : ~ environ[n].set)
        => status = "refused"

\* filename ends in a dot followed by extension e, in any case
EndsWithDotExt(filename, e) ==
    /\ Len(filename) > Len(e)
    /\ filename[Len(filename) - Len(e)] = "."
    /\ \A i \in 1..Len(e) :
           LowerChar(filename[Len(filename) - Len(e) + i]) = e[i]

\* key is articles/<id>_<role>.<ext>, ext being the lower-cased extension of
\* filename
IsKeyOf(key, id, role, filename) ==
    \E e \in allowed :
        /\ EndsWithDotExt(filename, e)
        /\ key = <<"a","r","t","i","c","l","e","s","/">> \o id \o <<"_">>
                     \o role \o <<".">> \o e

\* the step is the allocation of an id by request w
IsAllocate(w) == pc[w] = "idle" /\ pc'[w] = "upload_og"

\* the step is request w's load_articles and insertion
IsLoad(w) == pc[w] = "load" /\ pc'[w] = "save_open"

\* the step is a successful upload by request w
IsUpload(w) ==
    /\ pc[w] \in {"upload_og", "upload_troll"}
    /\ attempts'[w] # <<>>
    /\ Len(attempts'[w]) = Len(attempts[w]) + 1

\* the key request w uploads to at its position
UploadKey(w) == IF pc[w] = "upload_og" THEN og_key[w] ELSE troll_key[w]

\* no id has been allocated twice
IdsDistinct == \A id \in DOMAIN allocated : allocated[id] = 1

\* C14: the two keys of a create are articles/<id>_og.<ext> and
\* articles/<id>_troll.<ext>, with its allocated id and the lower-cased
\* extensions of its two filenames, and they differ; the uploads go to these
\* keys and the record inserted and saved carries them; as long as the
\* allocated ids are pairwise distinct, no upload goes to a key that already
\* holds an object.
C14_KeysFromId ==
    [][\A w \in Workers :
          /\ IsAllocate(w) =>
                 /\ IsKeyOf(og_key'[w], article_id'[w], <<"o","g">>,
                            form'[w].og_image.filename)
                 /\ IsKeyOf(troll_key'[w], article_id'[w],
                            <<"t","r","o","l","l">>,
                            form'[w].troll_image.filename)
                 /\ og_key'[w] # troll_key'[w]
          /\ (pc[w] # "idle" /\ pc'[w] # "idle") =>
                 /\ og_key'[w] = og_key[w]
                 /\ troll_key'[w] = troll_key[w]
                 /\ article_id'[w] = article_id[w]
                 /\ form'[w] = form[w]
          /\ IsUpload(w) =>
                 /\ assets' = assets \cup {UploadKey(w)}
                 /\ IdsDistinct => UploadKey(w) \notin assets
          /\ IsLoad(w) =>
                 /\ articles'[w][article_id[w]].og_key = og_key[w]
                 /\ articles'[w][article_id[w]].troll_key = troll_key[w]
          /\ (IsSaveWrite(w) /\ file'.state = "ok") =>
                 /\ file'.data[article_id[w]].og_key = og_key[w]
                 /\ file'.data[article_id[w]].troll_key = troll_key[w]]_vars

\* two creates with different ids have uploaded their four objects under
\* four keys, and the store holds a record with a .jpg preview key made from
\* the filename b.JPG
C14_Witness ==
    /\ IdsDistinct
    /\ Cardinality(DOMAIN allocated) = 2
    /\ Cardinality(assets) = 4
    /\ \E id \in DOMAIN Store :
           /\ HasKeys(Store[id])
           /\ id \in DOMAIN submitted
           /\ submitted[id].og_image.filename = <<"b", ".", "J", "P", "G">>
           /\ Store[id].og_key = <<"a","r","t","i","c","l","e","s","/">> \o id
                                     \o <<"_","o","g",".","j","p","g">>
           /\ Store[id].og_key \in assets
           /\ Store[id].troll_key \in assets

\* the store file is missing, or holds no JSON document (nothing at all, or
\* bytes that do not parse)
Unreadable == file.state \in {"missing", "empty", "bad"}

HexDigits == {"0","1","2","3","4","5","6","7","8","9","a","b","c","d","e","f"}

\* C16 as stated: every id a create allocates is a string of 10 lowercase
\* hexadecimal characters, and a create that starts when no other create is
\* running is allocated an id that no earlier create was allocated.
C16_NoDuplicateIds ==
    [][\A w \in Workers :
          IsAllocate(w) =>
              /\ Len(article_id'[w]) = 10
              /\ \A i \in 1..Len(article_id'[w]) :
                     article_id'[w][i] \in HexDigits
              /\ (\A v \in Workers : pc[v] = "idle") =>
                     article_id'[w] \notin DOMAIN allocated]_vars

\* C17: an id that is already a key of the store is allocated, uploaded to
\* and inserted like any other: the uploads go to the keys of that id, also
\* when they hold objects already; the mapping the request then saves has
\* the same ids as the store it loaded, with the record of the id replaced
\* by the new one; the save writes that mapping and the create answers with
\* the redirect.
C17_NoExistenceCheck ==
    [][\A w \in Workers :
          /\ (IsUpload(w) /\ UploadKey(w) \in assets) =>
                 assets' = assets /\ pc'[w] # "idle"
          /\ (IsLoad(w) /\ article_id[w] \in DOMAIN Store) =>
                 /\ DOMAIN articles'[w] = DOMAIN Store
                 /\ articles'[w][article_id[w]] =
                        RecordOf(article_id[w], form[w])
                 /\ \A x \in DOMAIN Store \ {article_id[w]} :
                        articles'[w][x] = Store[x]
          /\ (IsSaveWrite(w) /\ file'.state = "ok") =>
                 /\ file'.data = articles[w]
                 /\ file'.data[article_id[w]] =
                        RecordOf(article_id[w], form[w])]_vars

\* a create was allocated the id of a record that an earlier create had
\* published with another headline; it has uploaded to the keys that already
\* held that record's objects and holds the mapping it is about to save, in
\* which its record has taken the place of the published one
C17_Witness ==
    \E w \in Workers :
        /\ pc[w] = "save_open"
        /\ article_id[w] \in DOMAIN Store
        /\ article_id[w] \in DOMAIN submitted
        /\ allocated[article_id[w]] = 2
        /\ Store[article_id[w]] =
               RecordOf(article_id[w], submitted[article_id[w]])
        /\ Store[article_id[w]].headline # headline[w]
        /\ articles[w][article_id[w]].headline = headline[w]
        /\ Store[article_id[w]].og_key = og_key[w]
        /\ Cardinality(DOMAIN articles[w]) = Cardinality(DOMAIN Store)

\* C18: with one create at a time, a create leaves the store file alone up
\* to its load; when its id is not in the store it loads, the mapping it
\* holds from then on is that store plus the one entry
\* id -> {id, headline, og_key, troll_key}, every record the store had, of
\* either shape, being carried over unchanged; its save writes exactly this
\* mapping and it answers with the redirect.  A create that fails validation
\* changes neither the store file nor the bucket.
C18_OneEntryAdded ==
    [][/\ pc'[1] \in {"upload_og", "upload_troll", "load"} => file' = file
       /\ (IsLoad(1) /\ article_id[1] \notin DOMAIN Store) =>
              /\ DOMAIN articles'[1] = DOMAIN Store \cup {article_id[1]}
              /\ Cardinality(DOMAIN articles'[1]) =
                     Cardinality(DOMAIN Store) + 1
              /\ articles'[1][article_id[1]] =
                     [id |-> article_id[1], headline |-> Strip(form[1].headline),
                      og_key |-> og_key[1], troll_key |-> troll_key[1]]
              /\ \A x \in DOMAIN Store : articles'[1][x] = Store[x]
       /\ (pc[1] = "save_open" /\ pc'[1] = "save_write") =>
              articles'[1] = articles[1]
       /\ IsSaveWrite(1) => file' = FileOk(articles[1])
       /\ (IsPost /\ out'.resp.kind = "form") =>
              UNCHANGED <<file, assets>>]_vars

\* a create has answered with the redirect and the store is the two records
\* it started with, of the legacy shape and with one key, plus the new one
C18_Witness ==
    /\ out.src = "post"
    /\ out.resp.kind = "redirect"
    /\ out.req.headline = <<" ", "b", " ">>
    /\ file = FileOk(Insert(LegacyStore, out.resp.article_id,
                            RecordOf(out.resp.article_id, out.req)))
    /\ Cardinality(DOMAIN Store) = 3
    /\ Store[LegacyId] = LegacyRecord

\* C19: a create that loads while the store file holds unparseable content
\* goes on with a mapping of exactly one record, its own, in which no id a
\* create returned before is left; its save truncates the file, and the
\* write, when no other save has written in between, leaves a parseable file
\* that holds this one record.
C19_CorruptStoreReset ==
    [][\A w \in Workers :
          /\ (IsLoad(w) /\ file.state = "bad") =>
                 /\ articles'[w] =
                        [x \in {article_id[w]} |->
                            RecordOf(article_id[w], form[w])]
                 /\ \A id \in issued \ {article_id[w]} :
                        id \notin DOMAIN articles'[w]
          /\ (pc[w] = "save_open" /\ pc'[w] = "save_write") =>
                 /\ file' = FileEmpty
                 /\ articles'[w] = articles[w]
          /\ (IsSaveWrite(w) /\ file.state = "empty") =>
                 /\ file'.state = "ok"
                 /\ file'.data = articles[w]
                 /\ DOMAIN articles[w] = {article_id[w]} =>
                        Cardinality(DOMAIN load_articles(file')) = 1]_vars

\* the file holds unparseable content and a create, its uploads done, has
\* loaded it as the empty mapping: the mapping it is about to save holds its
\* own record and nothing else
C19_Witness ==
    \E w \in Workers :
        /\ file.state = "bad"
        /\ pc[w] = "save_open"
        /\ attempts[w] = <<OkOg, OkTroll>>
        /\ DOMAIN articles[w] = {article_id[w]}
        /\ articles[w][article_id[w]].headline = <<"b">>

=============================================================================
